---- MODULE Spec2Model ----
(***************************************************************************)
(* Model of the problem-statement processor: the run driver (main.py),     *)
(* the configuration (config.py), the mutator (mutation.py), the Problem   *)
(* entity (problem.py) and the selection loop with its scorer              *)
(* (processor.py).                                                         *)
(*                                                                         *)
(* Representation choices:                                                 *)
(*  - a text is a record carrying its name and the measurements the scorer *)
(*    takes of it (split() length, technical-term count, count of "\n- ",  *)
(*    count of "\n\n", whether strip() leaves it unchanged, and the value  *)
(*    of textstat.flesch_reading_ease for it, in hundredths: Flesch's      *)
(*    formula, 206.835 - 1.015 * words/sentences - 84.6 * syllables/words, *)
(*    rounded to two decimals);                                            *)
(*  - a score is kept as the integer 120000 * score.  The contents tried   *)
(*    are such that two scores are equal only when they are computed from  *)
(*    the same measurements, history length and number of distinct labels, *)
(*    as the same floating-point operations give the same float; any other *)
(*    two differ by 1/120000 at least, far above the rounding of floats;   *)
(*  - a uuid4() is a fresh value of a counter; None is 0;                  *)
(*  - random.sample / random.choice are nondeterministic choices;          *)
(*  - the backend, the prompt-template files and the file system answer    *)
(*    nondeterministically at each call;                                   *)
(*  - a call of mutate is two steps, up to its await of the backend and    *)
(*    from the backend's answer on; a write to disk fails before or after  *)
(*    open(), the file being left empty or partly written in the second    *)
(*    case;                                                                *)
(*  - a seed file is tried with a configuration when the run needs at most *)
(*    MaxMutations calls of mutate on it, so that no run is cut short;     *)
(*  - a registry records, for every Problem created, what created it and   *)
(*    its parent_id, in creation order;                                    *)
(*  - Problem.create, mutate, evaluate_problem and process_round (with     *)
(*    cleanup after it) are also run on their own, on inputs drawn from    *)
(*    bounded sets.                                                        *)
(***************************************************************************)
EXTENDS Integers, Sequences, FiniteSets, TLC

\* ------------------------------------------------------------------ bounds
MaxRounds == 2     \* --num_rounds is tried up to this
MaxSample == 2     \* --num_problems is tried up to this
MaxSeeds == 2      \* lines of the seed file
MaxChoices == 2    \* completions in one backend response
MaxMutations == 2  \* calls of mutate a run may need, for its seed file to be tried
MaxFailures == 2   \* failures (template, backend, disk) injected in one run
MaxLineage == 40   \* length of a mutation history handed to the scorer alone

\* ------------------------------------------------------------------ values
None == 0

NoText == [text |-> "", words |-> 0, tech |-> 0, bullets |-> 0,
           blank_lines |-> 0, stripped |-> TRUE, flesch |-> 0]

\* Lines of problems/problems.txt after line.strip(): one line each, so no
\* "\n- ", no "\n\n", and strip() leaves them unchanged.  "Problem 1" is one
\* sentence of 2 words and 3 syllables (index 77.91), "Design a system" one
\* of 3 words and 5 syllables (index 62.79).
Problem1 == [text |-> "Problem 1", words |-> 2, tech |-> 0, bullets |-> 0,
             blank_lines |-> 0, stripped |-> TRUE, flesch |-> 7791]
DesignASystem == [text |-> "Design a system", words |-> 3, tech |-> 2, bullets |-> 0,
                  blank_lines |-> 0, stripped |-> TRUE, flesch |-> 6279]

\* The seed files tried: the first n lines of a file that alternates the two.
SeedFile(n) == [i \in 1..n |-> IF i % 2 = 1 THEN Problem1 ELSE DesignASystem]
SeedFiles == { SeedFile(n) : n \in 0..MaxSeeds }

\* Completions the backend may return: a short one (2 words, 4 syllables,
\* index 35.61), and one run-on sentence of 200 words and 463 syllables
\* (index -192.01).
Completions ==
  { [text |-> "Mutated X", words |-> 2, tech |-> 0, bullets |-> 0,
     blank_lines |-> 0, stripped |-> TRUE, flesch |-> 3561],
    [text |-> "<run-on sentence of 200 words>", words |-> 200, tech |-> 0,
     bullets |-> 0, blank_lines |-> 0, stripped |-> TRUE, flesch |-> -19201] }

\* Mutant of mutation_types: the list of the MutationHandler class, which
\* holds the fourth strategy.
handler_mutation_types == {"rephrase", "expand", "simplify", "add_constraints"}

\* The list process_round draws the mutation type from.
mutation_types == {"rephrase", "expand", "simplify"}

Min(a, b) == IF a < b THEN a ELSE b

\* All sequences over S of length 0..n.
SeqsUpTo(S, n) == UNION { [1..k -> S] : k \in 0..n }

\* ------------------------------------------------------------------ Problem
NoProblem == [id |-> None, content |-> NoText, score |-> 0,
              parent_id |-> None, mutations |-> <<>>]

\* Mutant of create: the parent_id passed is not stored.
create_orphan(content, parent_id, fresh_id) ==
  [id |-> fresh_id, content |-> content, score |-> 0,
   parent_id |-> None, mutations |-> <<>>]

\* Problem.create(content, parent_id): uuid4() is fresh_id; __post_init__
\* turns mutations None into [].
create(content, parent_id, fresh_id) ==
  [id |-> fresh_id, content |-> content, score |-> 0,
   parent_id |-> parent_id, mutations |-> <<>>]

\* ------------------------------------------------------------------ scorer
\* 30000 * _calculate_complexity
calculate_complexity(problem) ==
  LET length_score == 100 * Min(problem.content.words, 100)  \* 10000 * min(wc/100, 1.0)
      tech_score == 2000 * problem.content.tech              \* 10000 * n / 5
      nested_score == 1000 * problem.content.bullets         \* 10000 * n / 10
  IN  length_score + tech_score + nested_score

\* 30000 * _calculate_clarity
calculate_clarity(problem) ==
  LET readability == problem.content.flesch                  \* 10000 * index / 100
      paragraphs == problem.content.blank_lines + 1
      structure_score == Min(2000 * paragraphs, 10000)       \* 10000 * min(p/5, 1.0)
      format_score == IF problem.content.stripped THEN 10000 ELSE 8000
  IN  readability + structure_score + format_score

\* 3 * _calculate_diversity
calculate_diversity(problem) ==
  LET mutation_variety ==
        Cardinality({ problem.mutations[i] : i \in 1..Len(problem.mutations) })
  IN  Min(mutation_variety, 3)

\* 120000 * evaluate_problem: the four factors are complexity, clarity,
\* diversity and len(mutations)/10, averaged.
evaluate_problem(problem) ==
  calculate_complexity(problem) + calculate_clarity(problem)
    + 10000 * calculate_diversity(problem) + 3000 * Len(problem.mutations)

\* ------------------------------------------------------------------ mutator
\* What openai.ChatCompletion.acreate does: it raises, or it returns a
\* response whose 'choices' is a list of completions (here of at most n).
Responses(n) ==
  { [raised |-> TRUE, choices |-> <<>>] } \cup
  { [raised |-> FALSE, choices |-> c] : c \in SeqsUpTo(Completions, n) }

Raise(exc) == [exc |-> exc, value |-> NoProblem]
Return(value) == [exc |-> "none", value |-> value]

\* MutationHandler.load_prompt: FileNotFoundError when the template file of
\* the mutation type does not exist.
load_prompt(mutation_type, template_exists) ==
  IF template_exists THEN "none" ELSE "FileNotFoundError"

\* Mutant of mutate: the last completion of the response is taken, not the
\* first.
mutate_last_choice(problem, mutation_type, template_exists, response, fresh_id) ==
  IF load_prompt(mutation_type, template_exists) # "none"
  THEN Raise(load_prompt(mutation_type, template_exists))
  ELSE IF response.raised \/ Len(response.choices) = 0
  THEN Raise("RuntimeError")
  ELSE LET new_content == response.choices[Len(response.choices)]
           new_problem == create(new_content, problem.id, fresh_id)
       IN  Return([new_problem EXCEPT
                     !.mutations = problem.mutations \o <<mutation_type>>])

\* Mutant of mutate: the child's history starts afresh, the parent's is not
\* carried over.
mutate_fresh_history(problem, mutation_type, template_exists, response, fresh_id) ==
  IF load_prompt(mutation_type, template_exists) # "none"
  THEN Raise(load_prompt(mutation_type, template_exists))
  ELSE IF response.raised \/ Len(response.choices) = 0
  THEN Raise("RuntimeError")
  ELSE LET new_content == response.choices[1]
           new_problem == create(new_content, problem.id, fresh_id)
       IN  Return([new_problem EXCEPT !.mutations = <<mutation_type>>])

\* Mutant of mutate: the child is scored before it is returned.
mutate_scored(problem, mutation_type, template_exists, response, fresh_id) ==
  IF load_prompt(mutation_type, template_exists) # "none"
  THEN Raise(load_prompt(mutation_type, template_exists))
  ELSE IF response.raised \/ Len(response.choices) = 0
  THEN Raise("RuntimeError")
  ELSE LET new_content == response.choices[1]
           new_problem == create(new_content, problem.id, fresh_id)
           child == [new_problem EXCEPT
                       !.mutations = problem.mutations \o <<mutation_type>>]
       IN  Return([child EXCEPT !.score = evaluate_problem(child)])

\* MutationHandler.mutate(problem, mutation_type).  load_prompt runs outside
\* the try block; everything raised inside it (the backend's error, the
\* IndexError of choices[0] on an empty list) is re-raised as RuntimeError.
mutate(problem, mutation_type, template_exists, response, fresh_id) ==
  IF load_prompt(mutation_type, template_exists) # "none"
  THEN Raise(load_prompt(mutation_type, template_exists))
  ELSE IF response.raised \/ Len(response.choices) = 0
  THEN Raise("RuntimeError")
  ELSE LET new_content == response.choices[1]
           new_problem == create(new_content, problem.id, fresh_id)
       IN  Return([new_problem EXCEPT
                     !.mutations = problem.mutations \o <<mutation_type>>])

\* MutationHandler.add_constraints(problem): as mutate, with the template
\* and the label "add_constraints".  Nothing in main or process_round calls
\* it.
add_constraints(problem, template_exists, response, fresh_id) ==
  IF load_prompt("add_constraints", template_exists) # "none"
  THEN Raise(load_prompt("add_constraints", template_exists))
  ELSE IF response.raised \/ Len(response.choices) = 0
  THEN Raise("RuntimeError")
  ELSE LET new_content == response.choices[1]
           new_problem == create(new_content, problem.id, fresh_id)
       IN  Return([new_problem EXCEPT
                     !.mutations = problem.mutations \o <<"add_constraints">>])

\* ------------------------------------------------------------------ selection
\* Mutant of sample: the positions are drawn with replacement.
sample_with_replacement(population, k) ==
  { [i \in 1..k |-> population[f[i]]] : f \in [1..k -> 1..Len(population)] }

\* random.sample(population, k): every sequence of k elements at distinct
\* positions of the population.
sample(population, k) ==
  { [i \in 1..k |-> population[f[i]]] :
      f \in { g \in [1..k -> 1..Len(population)] :
                \A a, b \in 1..k : a # b => g[a] # g[b] } }

\* Mutant of InsertByScore: x is placed before the elements of equal score.
InsertByScore_before_equals(sorted, x) ==
  LET k == Cardinality({ i \in 1..Len(sorted) : sorted[i].score > x.score })
  IN  SubSeq(sorted, 1, k) \o <<x>> \o SubSeq(sorted, k + 1, Len(sorted))

\* Place x in a list sorted descending by score, after every element whose
\* score is not smaller (the sort is stable).
InsertByScore(sorted, x) ==
  LET k == Cardinality({ i \in 1..Len(sorted) : sorted[i].score >= x.score })
  IN  SubSeq(sorted, 1, k) \o <<x>> \o SubSeq(sorted, k + 1, Len(sorted))

\* sorted(list, key=lambda x: x.score, reverse=True)
RECURSIVE sorted_by_score(_)
sorted_by_score(list) ==
  IF list = <<>> THEN <<>>
  ELSE InsertByScore(sorted_by_score(SubSeq(list, 1, Len(list) - 1)),
                     list[Len(list)])

\* Mutant of Slice: one element too few.
Slice_short(list, n) == SubSeq(list, 1, Min(n, Len(list)) - 1)

\* list[:n] for n >= 0
Slice(list, n) == SubSeq(list, 1, Min(n, Len(list)))

\* Mutant of score_stragglers: nothing is scored.
score_stragglers_none(population) == population

\* The loop "for problem in problems: if problem.score == 0: score it".
score_stragglers(population) ==
  [i \in 1..Len(population) |->
     IF population[i].score = 0
     THEN [population[i] EXCEPT !.score = evaluate_problem(population[i])]
     ELSE population[i]]

\* Mutant of merge_and_truncate: the merged list is cut without being sorted.
merge_and_truncate_unsorted(new_list, population, topk) ==
  Slice(new_list \o population, topk)

\* Mutant of merge_and_truncate: the input population is left out of the
\* merge.
merge_and_truncate_children_only(new_list, population, topk) ==
  Slice(sorted_by_score(new_list), topk)

\* The return expression of process_round.
merge_and_truncate(new_list, population, topk) ==
  Slice(sorted_by_score(new_list \o population), topk)

\* ------------------------------------------------------------------ config
NoConfig == [num_rounds |-> 0, num_problems |-> 0, topk_problems |-> 0,
             mutate_on_start |-> FALSE, current_round |-> 0]

\* The command lines tried: every combination, the invalid ones included.
ArgsSpace == [num_rounds : 0..MaxRounds, num_problems : 0..MaxSample,
              topk_problems : 0..MaxSample + 1, mutate_on_start : BOOLEAN]

\* Mutant of from_args: the check of topk_problems against num_problems is
\* missing.
from_args_no_topk_bound(a) ==
  IF a.num_rounds < 1 THEN [exc |-> "ValidationError", value |-> NoConfig]
  ELSE IF a.num_problems < 1 THEN [exc |-> "ValidationError", value |-> NoConfig]
  ELSE IF a.topk_problems < 1 THEN [exc |-> "ValidationError", value |-> NoConfig]
  ELSE [exc |-> "none",
        value |-> [num_rounds |-> a.num_rounds, num_problems |-> a.num_problems,
                   topk_problems |-> a.topk_problems,
                   mutate_on_start |-> a.mutate_on_start, current_round |-> 0]]

\* Config.from_args: the four checks in order, then the dataclass with
\* current_round at its default 0.
from_args(a) ==
  IF a.num_rounds < 1 THEN [exc |-> "ValidationError", value |-> NoConfig]
  ELSE IF a.num_problems < 1 THEN [exc |-> "ValidationError", value |-> NoConfig]
  ELSE IF a.topk_problems < 1 THEN [exc |-> "ValidationError", value |-> NoConfig]
  ELSE IF a.topk_problems > a.num_problems
  THEN [exc |-> "ValidationError", value |-> NoConfig]
  ELSE [exc |-> "none",
        value |-> [num_rounds |-> a.num_rounds, num_problems |-> a.num_problems,
                   topk_problems |-> a.topk_problems,
                   mutate_on_start |-> a.mutate_on_start, current_round |-> 0]]

\* str(p.id)
str(id) == <<"str", id>>

\* The document Config.save_leaderboard dumps (the timestamp left out).
leaderboard_data(cfg, population) ==
  LET ranked == sorted_by_score(population)
  IN  [round_number |-> cfg.current_round,
       problems |-> [i \in 1..Len(ranked) |->
                       [id |-> str(ranked[i].id), score |-> ranked[i].score,
                        mutations |-> ranked[i].mutations]]]

NoLeaderboard == [round_number |-> -1, problems |-> <<>>]

\* leaderboard.yaml after open(path, 'w') and a write that raised: an empty
\* file, which holds no document (round_number -2 stands for that).
EmptyLeaderboard == [round_number |-> -2, problems |-> <<>>]

\* leaderboard.yaml after yaml.dump, which writes in pieces, raised part-way:
\* the beginning of a document, which is no whole document (round_number -3
\* stands for that).
PartialLeaderboard == [round_number |-> -3, problems |-> <<>>]

\* ------------------------------------------------------------------ driver
\* Mutant of range: one value too many.
range_inclusive(n) == 0..n

\* range(n) of "for round_num in range(config.num_rounds)"
range(n) == 0..(n - 1)

\* The except clauses of main, in order: what is logged and what is returned.
main_except(exc) ==
  IF exc = "ConfigurationError" THEN [log |-> "Configuration error", ret |-> 1]
  ELSE IF exc = "MutationError" THEN [log |-> "Mutation error", ret |-> 1]
  ELSE IF exc = "ResourceError" THEN [log |-> "Resource error", ret |-> 1]
  ELSE IF exc = "ValidationError" THEN [log |-> "Validation error", ret |-> 1]
  ELSE [log |-> "Unexpected error", ret |-> 1]

\* ------------------------------------------------------------------ state
VARIABLES
  args,              \* the parsed command line
  pc,                \* where main is
  config,            \* the Config object
  problems,          \* main's local 'problems'
  round_num,         \* the loop variable of "for round_num in range(...)"
  call_site,         \* which call of process_round is running
  round_problems,    \* process_round's parameter 'problems'
  selected_problems, \* process_round's local
  idx,               \* position of the for loop over selected_problems
  new_problems,      \* process_round's local
  in_flight,         \* the mutation type of the request awaited ("none" if none)
  next_id,           \* the next uuid4()
  output_files,      \* the files of output/: name (the id) and content
  leaderboard,       \* the content of leaderboard.yaml
  ret,               \* main's return value (-1 while it runs)
  log,               \* the category logged with logging.error
  exit_status,       \* the exit status of the process (-1 while it runs)
  \* history and bookkeeping, read by the properties and the bounds only
  round_pc,          \* "idle", "running", "returned", "aborted": the latest process_round
  attempts,          \* the mutation attempts of the latest round
  merge_candidates,  \* new_problems + problems at the latest merge
  round_entry,       \* the population the latest round was called with
  last_output,       \* what the latest completed process_round returned
  snapshots,         \* every snapshot written: its round_number, and after which invocation
  invocations,       \* how many times process_round was called
  backend_requests,  \* how many requests were sent to the backend
  mutations_done,    \* how many times mutate was called
  failures,          \* how many failures were injected
  loaded,            \* whether load_problems read the seed file
  raised,            \* the exception that ended main ("none" if none)
  registry,          \* every Problem created, by id: what created it, its parent_id
  mutate_io,         \* a call of mutate on its own: its inputs and its result
  create_io,         \* a call of Problem.create on its own
  evaluate_io        \* a call of evaluate_problem on its own

vars == << args, pc, config, problems, round_num, call_site, round_problems,
           selected_problems, idx, new_problems, in_flight, next_id, registry,
           output_files,
           leaderboard, ret, log, exit_status, round_pc, attempts, round_entry,
           last_output,
           merge_candidates, snapshots, invocations, backend_requests,
           mutations_done, failures, loaded, raised, mutate_io, create_io,
           evaluate_io >>

driver_vars == << args, config, round_num, leaderboard, snapshots, loaded,
                 mutate_io, create_io, evaluate_io >>
output_vars == << last_output >>
local_vars == << call_site, round_problems, selected_problems, idx, new_problems,
                in_flight >>
history_vars == << round_pc, attempts, merge_candidates, round_entry >>
count_vars == << invocations, backend_requests, mutations_done, failures >>
exit_vars == << ret, log, exit_status, raised >>

NoMutate == [problem |-> NoProblem, mutation_type |-> "",
             template_exists |-> FALSE,
             response |-> [raised |-> FALSE, choices |-> <<>>],
             fresh_id |-> None, done |-> FALSE, result |-> Raise("none")]

NoCreate == [content |-> NoText, parent_id |-> None, fresh_id |-> None,
             done |-> FALSE, result |-> NoProblem]

NoEvaluate == [problem |-> NoProblem, done |-> FALSE, result |-> 0]

\* Nothing has run yet.
Fresh ==
  /\ config = NoConfig
  /\ problems = <<>>
  /\ round_num = 0
  /\ call_site = "none"
  /\ round_problems = <<>>
  /\ selected_problems = <<>>
  /\ idx = 1
  /\ new_problems = <<>>
  /\ in_flight = "none"
  /\ output_files = {}
  /\ leaderboard = NoLeaderboard
  /\ ret = -1
  /\ log = ""
  /\ exit_status = -1
  /\ round_pc = "idle"
  /\ attempts = <<>>
  /\ merge_candidates = <<>>
  /\ round_entry = <<>>
  /\ last_output = <<>>
  /\ snapshots = <<>>
  /\ invocations = 0
  /\ mutations_done = 0
  /\ failures = 0
  /\ loaded = FALSE
  /\ raised = "none"
  /\ registry = <<>>

Init ==
  /\ args \in ArgsSpace
  /\ pc = "from_args"
  /\ next_id = 1
  /\ backend_requests = 0
  /\ mutate_io = NoMutate
  /\ create_io = NoCreate
  /\ evaluate_io = NoEvaluate
  /\ Fresh

\* An exception reaches main's except clauses: log, return.
Caught(exc) ==
  /\ raised' = exc
  /\ log' = main_except(exc).log
  /\ ret' = main_except(exc).ret
  /\ pc' = "returned"
  /\ UNCHANGED exit_status

\* The history of the latest round is kept until main's next step.
ClearHistory ==
  /\ round_pc' = "idle"
  /\ attempts' = <<>>
  /\ merge_candidates' = <<>>
  /\ round_entry' = <<>>

\* main, line 29: config = Config.from_args(args)
main_from_args ==
  /\ pc = "from_args"
  /\ IF from_args(args).exc # "none"
     THEN /\ Caught(from_args(args).exc)
          /\ UNCHANGED config
     ELSE /\ config' = from_args(args).value
          /\ pc' = "load_problems"
          /\ UNCHANGED exit_vars
  /\ UNCHANGED << args, problems, round_num, next_id, registry, output_files,
                  leaderboard, snapshots, loaded, mutate_io, create_io,
                  evaluate_io >>
  /\ UNCHANGED << local_vars, history_vars, count_vars, output_vars >>

\* ProblemProcessor.load_problems: one Problem per non-blank line.
load_problems(lines, first_id) ==
  [i \in 1..Len(lines) |-> create(lines[i], None, first_id + i - 1)]

\* The most calls of mutate the invocations of process_round left can make
\* on a population of this size: every call succeeding, a round calls it
\* min(num_problems, size) times and returns min(topk, size + that) Variants.
RECURSIVE mutate_calls(_, _, _)
mutate_calls(size, invocations_left, cfg) ==
  IF invocations_left = 0 THEN 0
  ELSE LET k == Min(cfg.num_problems, size)
       IN  k + mutate_calls(Min(cfg.topk_problems, size + k),
                            invocations_left - 1, cfg)

\* The seed files tried with a configuration: those on which the run calls
\* mutate MaxMutations times at most (the empty file is always one).
SeedFilesFor(cfg) ==
  { lines \in SeedFiles :
      mutate_calls(Len(lines),
                   cfg.num_rounds + (IF cfg.mutate_on_start THEN 1 ELSE 0),
                   cfg) <= MaxMutations }

\* main, lines 31-35: the processor is built and the seed file read; the
\* FileNotFoundError of a missing seed file is caught by "except Exception".
main_load_problems ==
  /\ pc = "load_problems"
  /\ \E file_exists \in BOOLEAN, lines \in SeedFilesFor(config) :
       IF ~file_exists
       THEN /\ lines = <<>>
            /\ Caught("FileNotFoundError")
            /\ UNCHANGED << problems, next_id, registry, loaded >>
       ELSE /\ problems' = load_problems(lines, next_id)
            /\ next_id' = next_id + Len(lines)
            /\ registry' = registry \o [i \in 1..Len(lines) |->
                                         [origin |-> "load_problems",
                                          parent_id |-> None]]
            /\ loaded' = TRUE
            /\ pc' = IF config.mutate_on_start THEN "mutate_on_start"
                                              ELSE "for_rounds"
            /\ UNCHANGED exit_vars
  /\ UNCHANGED << args, config, round_num, output_files, leaderboard, snapshots,
                  mutate_io, create_io, evaluate_io >>
  /\ UNCHANGED << local_vars, history_vars, count_vars, output_vars >>

\* ------------------------------------------------------------------ process_round
\* Mutant of swallowed: only the mutator's own RuntimeError is caught.
swallowed_runtime_only(exc) == exc = "RuntimeError"

\* "except Exception" of the for loop of process_round: which exceptions of
\* one iteration it swallows (every class raised there derives from Exception).
swallowed(exc) == exc \in {"FileNotFoundError", "RuntimeError", "OSError"}

\* How a save ends: the file is written; mkdir or open raises, and there is
\* no file; open succeeds and the write raises, and the file is left empty,
\* or holding the part that was written.
save_outcomes == {"written", "open_fails", "write_fails", "write_partial"}

\* open(path, "w"): the file is created, or truncated, and is empty.
open_w(files, name) ==
  { f \in files : f.name # name } \cup { [name |-> name, content |-> NoText] }

\* What a file holds of a text whose write raised part-way: a proper prefix
\* of it, not empty (nothing measures it: no file is read back).
part_of(content) == [NoText EXCEPT !.text = "<part of> " \o content.text]

\* save_problem when f.write raises part-way.
write_partial(files, problem) ==
  { f \in files : f.name # problem.id }
    \cup { [name |-> problem.id, content |-> part_of(problem.content)] }

\* ProblemProcessor.save_problem: the files of output/ after writing one.
save_problem(files, problem) ==
  { f \in files : f.name # problem.id }
    \cup { [name |-> problem.id, content |-> problem.content] }

\* process_round, lines 87-96: the sample is drawn.  The caller is where
\* pc stands.
process_round_enter ==
  /\ \E sel \in sample(problems, Min(config.num_problems, Len(problems))) :
       selected_problems' = sel
  /\ call_site' = pc
  /\ pc' = "process_round"
  /\ round_problems' = problems
  /\ idx' = 1
  /\ new_problems' = <<>>
  /\ in_flight' = "none"
  /\ round_pc' = "running"
  /\ attempts' = <<>>
  /\ merge_candidates' = <<>>
  /\ round_entry' = problems
  /\ invocations' = invocations + 1
  /\ UNCHANGED << problems, next_id, registry, output_files, backend_requests,
                  mutations_done, failures, last_output >>
  /\ UNCHANGED << driver_vars, exit_vars >>

\* process_round called from main, line 36 or line 40.
process_round_sample ==
  /\ \/ pc = "mutate_on_start"
     \/ pc = "for_rounds" /\ round_num \in range(config.num_rounds)
  /\ process_round_enter

\* The first half of one iteration of "for problem in selected_problems"
\* (lines 98-101, mutation.py 19-22): the type is chosen and mutate called;
\* it raises at once for a missing template, or sends the request and awaits
\* the backend, the event loop running meanwhile.
process_round_request ==
  /\ pc = "process_round"
  /\ idx <= Len(selected_problems)
  /\ in_flight = "none"
  /\ \E mutation_type \in mutation_types, template_exists \in BOOLEAN :
       LET problem == selected_problems[idx]
           exc == load_prompt(mutation_type, template_exists)
       IN  /\ exc # "none" => failures < MaxFailures
           /\ mutations_done' = mutations_done + 1
           /\ IF exc = "none"
              THEN /\ in_flight' = mutation_type
                   /\ backend_requests' = backend_requests + 1
                   /\ UNCHANGED << failures, attempts, idx, pc, round_pc >>
                   /\ UNCHANGED exit_vars
              ELSE /\ in_flight' = "none"
                   /\ failures' = failures + 1
                   /\ attempts' = Append(attempts,
                                         [problem |-> problem.id, exc |-> exc])
                   /\ UNCHANGED backend_requests
                   /\ IF swallowed(exc)
                      THEN /\ idx' = idx + 1
                           /\ UNCHANGED << pc, round_pc >>
                           /\ UNCHANGED exit_vars
                      ELSE /\ Caught(exc)
                           /\ round_pc' = "aborted"
                           /\ UNCHANGED idx
  /\ UNCHANGED << problems, call_site, round_problems, selected_problems,
                  new_problems, next_id, registry, output_files,
                  merge_candidates, round_entry, last_output, invocations >>
  /\ UNCHANGED driver_vars

\* The second half (mutation.py 22-37, lines 101-108): the backend has
\* answered or failed; the child is created, scored, appended and saved; an
\* exception is swallowed.  The responses tried here hold one completion at
\* most: mutate reads choices[0] only, which SpecMutate checks on longer
\* responses.
process_round_response ==
  /\ pc = "process_round"
  /\ in_flight # "none"
  /\ \E response \in Responses(1), save \in save_outcomes :
       LET problem == selected_problems[idx]
           m == mutate(problem, in_flight, TRUE, response, next_id)
           new_problem == [m.value EXCEPT !.score = evaluate_problem(m.value)]
           exc == IF m.exc # "none" THEN m.exc
                  ELSE IF save = "written" THEN "none" ELSE "OSError"
       IN  \* an input that is not read takes one value only
           /\ m.exc = "none" \/ save = "written"
           /\ exc # "none" => failures < MaxFailures
           /\ failures' = failures + (IF exc # "none" THEN 1 ELSE 0)
           /\ in_flight' = "none"
           /\ next_id' = IF m.exc = "none" THEN next_id + 1 ELSE next_id
           /\ registry' = IF m.exc = "none"
                          THEN Append(registry, [origin |-> "mutate",
                                                 parent_id |-> problem.id])
                          ELSE registry
           /\ new_problems' = IF m.exc = "none"
                              THEN Append(new_problems, new_problem)
                              ELSE new_problems
           /\ output_files' =
                IF m.exc # "none" \/ save = "open_fails" THEN output_files
                ELSE IF save = "write_fails"
                THEN open_w(output_files, new_problem.id)
                ELSE IF save = "write_partial"
                THEN write_partial(output_files, new_problem)
                ELSE save_problem(output_files, new_problem)
           /\ attempts' = Append(attempts,
                                 [problem |-> problem.id, exc |-> exc])
           /\ IF exc = "none" \/ swallowed(exc)
              THEN /\ idx' = idx + 1
                   /\ UNCHANGED << pc, round_pc >>
                   /\ UNCHANGED exit_vars
              ELSE /\ Caught(exc)
                   /\ round_pc' = "aborted"
                   /\ UNCHANGED idx
  /\ UNCHANGED << problems, call_site, round_problems, selected_problems,
                  merge_candidates, round_entry, last_output, invocations,
                  backend_requests, mutations_done >>
  /\ UNCHANGED driver_vars

\* Lines 110-120: the stragglers are scored, the lists merged, sorted and
\* cut; the caller binds the result to 'problems' (main goes on; a call of
\* process_round on its own is done).  The locals end here.
process_round_return ==
  /\ pc = "process_round"
  /\ idx > Len(selected_problems)
  /\ merge_candidates' = new_problems \o score_stragglers(round_problems)
  /\ problems' = merge_and_truncate(new_problems,
                                    score_stragglers(round_problems),
                                    config.topk_problems)
  /\ last_output' = problems'
  /\ round_pc' = "returned"
  /\ pc' = IF call_site = "mutate_on_start" THEN "for_rounds"
           ELSE IF call_site = "for_rounds" THEN "save_leaderboard"
           ELSE "done"
  /\ call_site' = "none"
  /\ round_problems' = <<>>
  /\ selected_problems' = <<>>
  /\ idx' = 1
  /\ new_problems' = <<>>
  /\ in_flight' = "none"
  /\ UNCHANGED << attempts, round_entry, next_id, registry, output_files >>
  /\ UNCHANGED << driver_vars, count_vars, exit_vars >>

\* main, line 41: config.save_leaderboard(problems); then the next round.
main_save_leaderboard ==
  /\ pc = "save_leaderboard"
  /\ \E save \in save_outcomes :
       IF save = "written"
       THEN /\ leaderboard' = leaderboard_data(config, problems)
            /\ snapshots' = Append(snapshots,
                                   [round_number |-> config.current_round,
                                    invocation |-> invocations])
            /\ round_num' = round_num + 1
            /\ pc' = "for_rounds"
            /\ UNCHANGED exit_vars
       ELSE /\ Caught("OSError")
            /\ leaderboard' = IF save = "write_fails" THEN EmptyLeaderboard
                              ELSE IF save = "write_partial"
                              THEN PartialLeaderboard
                              ELSE leaderboard
            /\ UNCHANGED << snapshots, round_num >>
  /\ ClearHistory
  /\ UNCHANGED << args, config, loaded, problems, next_id, registry,
                  output_files, mutate_io, create_io, evaluate_io >>
  /\ UNCHANGED << local_vars, count_vars, output_vars >>

\* main, line 59: the loop is over, return 0.
main_return ==
  /\ pc = "for_rounds"
  /\ round_num \notin range(config.num_rounds)
  /\ ret' = 0
  /\ pc' = "returned"
  /\ ClearHistory
  /\ UNCHANGED << log, exit_status, raised, problems, next_id, registry, output_files >>
  /\ UNCHANGED << driver_vars, local_vars, count_vars, output_vars >>

\* Line 62, asyncio.run(main()): the value main returns is dropped, the
\* interpreter ends with status 0.
run_exit_status(returned) == 0

process_exit ==
  /\ pc = "returned"
  /\ exit_status' = run_exit_status(ret)
  /\ pc' = "exited"
  /\ UNCHANGED << ret, log, raised, problems, next_id, registry, output_files >>
  /\ UNCHANGED << driver_vars, local_vars, history_vars, count_vars,
                  output_vars >>

Next ==
  \/ main_from_args
  \/ main_load_problems
  \/ process_round_sample
  \/ process_round_request
  \/ process_round_response
  \/ process_round_return
  \/ main_save_leaderboard
  \/ main_return
  \/ process_exit

Spec == Init /\ [][Next]_vars

\* ------------------------------------------------------------------ mutate on its own
\* The parents mutate is tried on: seeds, unscored and scored, and the
\* scored children of seeds.
SeedProblems ==
  { create(t, None, i) : t \in {Problem1, DesignASystem}, i \in 1..MaxSeeds }

Scored(problem) == [problem EXCEPT !.score = evaluate_problem(problem)]

MutateParents ==
  SeedProblems \cup { Scored(p) : p \in SeedProblems } \cup
  { Scored(mutate(p, t, TRUE, [raised |-> FALSE, choices |-> <<c>>],
                  MaxSeeds + 1).value) :
      p \in SeedProblems, t \in mutation_types, c \in Completions }

\* A call of mutate or of add_constraints is about to be made; the next
\* uuid4() is fresh_id.
InitMutate ==
  /\ args = [num_rounds |-> 1, num_problems |-> 1, topk_problems |-> 1,
             mutate_on_start |-> FALSE]
  /\ pc \in {"mutate", "add_constraints"}
  /\ mutate_io \in
       { [problem |-> p, mutation_type |-> t, template_exists |-> e,
          response |-> r, fresh_id |-> MaxSeeds + 2, done |-> FALSE,
          result |-> Raise("none")] :
           p \in MutateParents, e \in BOOLEAN,
           t \in mutation_types \cup {"add_constraints"},
           r \in Responses(MaxChoices) }
  /\ pc = "mutate" => mutate_io.mutation_type \in mutation_types
  /\ pc = "add_constraints" => mutate_io.mutation_type = "add_constraints"
  /\ next_id = mutate_io.fresh_id
  /\ backend_requests = 0
  /\ create_io = NoCreate
  /\ evaluate_io = NoEvaluate
  /\ Fresh

\* What a step of a call on its own leaves alone.
MutateFrame ==
  /\ UNCHANGED << args, config, round_num, leaderboard, snapshots, loaded,
                  problems, registry, output_files, create_io, evaluate_io,
                  invocations, mutations_done, failures >>
  /\ UNCHANGED << local_vars, history_vars, output_vars, exit_vars >>

\* The call up to its await (mutation.py 19-22, or 49-52): load_prompt
\* raises, and the call is over, or the request is sent and the event loop
\* runs while the backend answers.
mutate_request ==
  /\ pc \in {"mutate", "add_constraints"}
  /\ IF load_prompt(mutate_io.mutation_type, mutate_io.template_exists) # "none"
     THEN /\ pc' = "done"
          /\ mutate_io' =
               [mutate_io EXCEPT
                  !.done = TRUE,
                  !.result = Raise(load_prompt(mutate_io.mutation_type,
                                               mutate_io.template_exists))]
          /\ UNCHANGED backend_requests
     ELSE /\ pc' = IF pc = "mutate" THEN "mutate_awaiting"
                                    ELSE "add_constraints_awaiting"
          /\ backend_requests' = backend_requests + 1
          /\ UNCHANGED mutate_io
  /\ UNCHANGED next_id
  /\ MutateFrame

\* mutate after its await (mutation.py 22-37): the backend has answered or
\* failed.
mutate_response ==
  /\ pc = "mutate_awaiting"
  /\ pc' = "done"
  /\ mutate_io' = [mutate_io EXCEPT
                     !.done = TRUE,
                     !.result = mutate(mutate_io.problem, mutate_io.mutation_type,
                                       mutate_io.template_exists,
                                       mutate_io.response, mutate_io.fresh_id)]
  /\ next_id' = IF mutate_io'.result.exc = "none" THEN next_id + 1 ELSE next_id
  /\ UNCHANGED backend_requests
  /\ MutateFrame

\* add_constraints after its await (mutation.py 52-67).
add_constraints_response ==
  /\ pc = "add_constraints_awaiting"
  /\ pc' = "done"
  /\ mutate_io' = [mutate_io EXCEPT
                     !.done = TRUE,
                     !.result = add_constraints(mutate_io.problem,
                                                mutate_io.template_exists,
                                                mutate_io.response,
                                                mutate_io.fresh_id)]
  /\ next_id' = IF mutate_io'.result.exc = "none" THEN next_id + 1 ELSE next_id
  /\ UNCHANGED backend_requests
  /\ MutateFrame

NextMutate ==
  \/ mutate_request
  \/ mutate_response
  \/ add_constraints_response

SpecMutate == InitMutate /\ [][NextMutate]_vars

\* The runs of main together with the calls of mutate on its own.
InitRunOrMutate == Init \/ InitMutate

NextRunOrMutate == Next \/ NextMutate

SpecRunOrMutate == InitRunOrMutate /\ [][NextRunOrMutate]_vars

\* ------------------------------------------------------------------ the processor on its own
\* The configurations from_args accepts for one round.
RoundConfigs ==
  { from_args(a).value :
      a \in { b \in ArgsSpace : /\ from_args(b).exc = "none"
                                /\ b.num_rounds = 1
                                /\ ~b.mutate_on_start } }

\* The child a first call of process_round makes of the seed of a seed file
\* of one line: mutate creates it under the id 2 with the seed's id as its
\* parent_id, and the round scores it.
first_child(mutation_type, completion) ==
  Scored(mutate(load_problems(SeedFile(1), 1)[1], mutation_type, TRUE,
                [raised |-> FALSE, choices |-> <<completion>>], 2).value)

\* A processor has been built, as main builds it, and is used on its own:
\* what holds between its calls.
RoundIdle ==
  /\ args = [num_rounds |-> 1, num_problems |-> 1, topk_problems |-> 1,
             mutate_on_start |-> FALSE]
  /\ config \in RoundConfigs
  /\ round_num = 0
  /\ call_site = "none"
  /\ round_problems = <<>>
  /\ selected_problems = <<>>
  /\ idx = 1
  /\ new_problems = <<>>
  /\ in_flight = "none"
  /\ leaderboard = NoLeaderboard
  /\ ret = -1
  /\ log = ""
  /\ exit_status = -1
  /\ snapshots = <<>>
  /\ failures = 0
  /\ loaded = FALSE
  /\ raised = "none"
  /\ mutate_io = NoMutate
  /\ create_io = NoCreate
  /\ evaluate_io = NoEvaluate

\* Nothing has been called yet: the population is the seeds of a seed file
\* that is not empty.  The call is tried when it calls mutate MaxMutations
\* times at most.
BeforeFirstCall ==
  /\ RoundIdle
  /\ \E n \in 1..MaxSeeds :
       /\ mutate_calls(n, 1, config) <= MaxMutations
       /\ problems = load_problems(SeedFile(n), 1)
       /\ next_id = n + 1
       /\ registry = [i \in 1..n |-> [origin |-> "load_problems",
                                      parent_id |-> None]]
  /\ output_files = {}
  /\ round_pc = "idle"
  /\ attempts = <<>>
  /\ merge_candidates = <<>>
  /\ round_entry = <<>>
  /\ last_output = <<>>
  /\ invocations = 0
  /\ backend_requests = 0
  /\ mutations_done = 0

\* process_round has returned from its first call, made on the seed of a
\* seed file of one line, in which nothing failed: the child was made, scored
\* and saved, the seed scored, and the two merged and cut to topK.  What
\* process_round_return leaves is as it left it.
AfterFirstCall ==
  /\ RoundIdle
  /\ \E mutation_type \in mutation_types, completion \in Completions :
       LET seeds == load_problems(SeedFile(1), 1)
           child == first_child(mutation_type, completion)
       IN  /\ round_entry = seeds
           /\ attempts = << [problem |-> seeds[1].id, exc |-> "none"] >>
           /\ merge_candidates = <<child>> \o score_stragglers(seeds)
           /\ problems = merge_and_truncate(<<child>>, score_stragglers(seeds),
                                            config.topk_problems)
           /\ last_output = problems
           /\ output_files = save_problem({}, child)
           /\ registry = << [origin |-> "load_problems", parent_id |-> None],
                            [origin |-> "mutate", parent_id |-> seeds[1].id] >>
  /\ next_id = 3
  /\ round_pc = "returned"
  /\ invocations = 1
  /\ backend_requests = 1
  /\ mutations_done = 1

\* process_round is about to be called, as the tests call it: for the first
\* time, or on what its first call returned.
InitRound ==
  /\ pc = "process_round_call"
  /\ BeforeFirstCall \/ AfterFirstCall

\* await processor.process_round(problems), as test_process_round calls it.
process_round_call ==
  /\ pc = "process_round_call"
  /\ process_round_enter

\* ProblemProcessor.cleanup (lines 198-204), awaited when the work is over:
\* MutationHandler has no close(), the AttributeError is caught by "except
\* Exception" and logged; nothing else changes and None is returned.
cleanup ==
  /\ pc = "done"
  /\ pc' = "cleaned_up"
  /\ log' = "Cleanup error"
  /\ UNCHANGED << ret, exit_status, raised, problems, next_id, registry,
                  output_files >>
  /\ UNCHANGED << driver_vars, local_vars, history_vars, count_vars,
                  output_vars >>

NextRound ==
  \/ process_round_call
  \/ process_round_request
  \/ process_round_response
  \/ process_round_return
  \/ cleanup

SpecRound == InitRound /\ [][NextRound]_vars

\* ------------------------------------------------------------------ create on its own
\* The contents tried: the empty string, the seed lines, the completions.
Texts == {NoText, Problem1, DesignASystem} \cup Completions

\* The ids tried: as many as a run can create, and one more.
Uuids == 1..(MaxSeeds + MaxMutations + 1)

\* Problem.create(c) is the call with parent_id at its default, None.
InitCreate ==
  /\ args = [num_rounds |-> 1, num_problems |-> 1, topk_problems |-> 1,
             mutate_on_start |-> FALSE]
  /\ pc = "create"
  /\ create_io \in
       { [content |-> c, parent_id |-> q, fresh_id |-> i, done |-> FALSE,
          result |-> NoProblem] :
           c \in Texts, q \in {None} \cup Uuids, i \in Uuids }
  /\ create_io.fresh_id # create_io.parent_id
  /\ next_id = create_io.fresh_id
  /\ backend_requests = 0
  /\ mutate_io = NoMutate
  /\ evaluate_io = NoEvaluate
  /\ Fresh

\* Problem.create(content, parent_id)
create_call ==
  /\ pc = "create"
  /\ pc' = "create_done"
  /\ create_io' = [create_io EXCEPT
                     !.done = TRUE,
                     !.result = create(create_io.content, create_io.parent_id,
                                       create_io.fresh_id)]
  /\ next_id' = next_id + 1
  /\ UNCHANGED << args, config, round_num, leaderboard, snapshots, loaded,
                  problems, registry, output_files, mutate_io, evaluate_io >>
  /\ UNCHANGED << local_vars, history_vars, count_vars, output_vars, exit_vars >>

NextCreate == create_call

SpecCreate == InitCreate /\ [][NextCreate]_vars

\* ------------------------------------------------------------------ the scorer on its own
\* A content of one long word, "Internationalization": one sentence of one
\* word of eight syllables, 206.835 - 1.015 * 1 - 84.6 * 8 = -470.98.
OneLongWord == [text |-> "Internationalization", words |-> 1, tech |-> 0,
                bullets |-> 0, blank_lines |-> 0, stripped |-> TRUE,
                flesch |-> -47098]

\* The contents scored are the seed lines, the completions and the long word.
\* The mutation histories tried: every short one, and the histories of one
\* repeated label up to MaxLineage (one label is added by each round).
Lineages ==
  SeqsUpTo(mutation_types, 2) \cup
  { [i \in 1..n |-> "rephrase"] : n \in 0..MaxLineage }

InitEvaluate ==
  /\ args = [num_rounds |-> 1, num_problems |-> 1, topk_problems |-> 1,
             mutate_on_start |-> FALSE]
  /\ pc = "evaluate"
  /\ next_id = 1
  /\ backend_requests = 0
  /\ evaluate_io \in
       { [problem |-> [create(c, None, 1) EXCEPT !.mutations = h],
          done |-> FALSE, result |-> 0] :
           c \in (Texts \ {NoText}) \cup {OneLongWord}, h \in Lineages }
  /\ mutate_io = NoMutate
  /\ create_io = NoCreate
  /\ Fresh

\* self.evaluate_problem(problem)
evaluate_call ==
  /\ pc = "evaluate"
  /\ pc' = "evaluate_done"
  /\ evaluate_io' = [evaluate_io EXCEPT
                       !.done = TRUE,
                       !.result = evaluate_problem(evaluate_io.problem)]
  /\ UNCHANGED << args, config, round_num, leaderboard, snapshots, loaded,
                  problems, next_id, registry, output_files, mutate_io,
                  create_io >>
  /\ UNCHANGED << local_vars, history_vars, count_vars, output_vars, exit_vars >>

NextEvaluate == evaluate_call

SpecEvaluate == InitEvaluate /\ [][NextEvaluate]_vars

\* ------------------------------------------------------------------ properties
\* Helpers of the properties.
IsSortedDesc(list) ==
  \A i \in 1..Len(list) - 1 : list[i].score >= list[i + 1].score

Ids(list) == { list[i].id : i \in 1..Len(list) }

\* What a failed call of mutate raises: the missing template's
\* FileNotFoundError or the RuntimeError wrapping the backend's error.
MutationFailures == {"FileNotFoundError", "RuntimeError"}

\* The children of the latest round among the merge candidates.
RoundChildren ==
  { c \in { merge_candidates[j] : j \in 1..Len(merge_candidates) } :
      c.id \notin Ids(round_entry) }

\* C1: whatever the population, topK and the outcomes of the mutation
\* calls, the list process_round returns has at most topK entries and is
\* sorted in non-increasing order of score.
C1_BoundedSorted ==
  round_pc = "returned" =>
    /\ Len(problems) <= config.topk_problems
    /\ IsSortedDesc(problems)

\* C1 witness: a round with one failed and one successful mutation returned,
\* the merge was cut, and the result holds two different scores.
C1_Witness ==
  /\ round_pc = "returned"
  /\ Len(merge_candidates) > config.topk_problems
  /\ \E i, j \in 1..Len(attempts) :
       attempts[i].exc \in MutationFailures /\ attempts[j].exc = "none"
  /\ Len(problems) = 2
  /\ problems[1].score > problems[2].score

\* C2: when every mutation call of a round fails and the input population is
\* not empty, the round is not aborted, and what it returns is not empty, has
\* at most topK entries, is sorted descending by score and holds only
\* Variants of the input population.
C2_AllFailedRound ==
  (/\ round_pc # "idle"
   /\ Len(round_entry) > 0
   /\ \A i \in 1..Len(attempts) : attempts[i].exc \in MutationFailures) =>
    /\ round_pc # "aborted"
    /\ raised = "none"
    /\ round_pc = "returned" =>
         /\ Len(attempts) > 0
         /\ Len(problems) > 0
         /\ Len(problems) <= config.topk_problems
         /\ IsSortedDesc(problems)
         /\ \A i \in 1..Len(problems) :
              \E j \in 1..Len(round_entry) :
                /\ problems[i].id = round_entry[j].id
                /\ problems[i].content = round_entry[j].content
                /\ problems[i].mutations = round_entry[j].mutations
                /\ problems[i].parent_id = round_entry[j].parent_id

\* C2 witness: a round of two mutation calls, both failed, has returned.
C2_Witness ==
  /\ round_pc = "returned"
  /\ Len(attempts) = 2
  /\ \A i \in 1..Len(attempts) : attempts[i].exc \in MutationFailures
  /\ Len(problems) > 0

\* C3: a failed mutation of one sampled Variant never aborts the round: it
\* adds no child, the sampled Variants after it are attempted all the same,
\* and the round returns a population.
C3_FailureIsSkipped ==
  /\ round_pc # "aborted"
  /\ round_pc = "running" =>
       /\ Len(attempts) = idx - 1
       /\ \A i \in 1..Len(attempts) :
            attempts[i].problem = selected_problems[i].id
       /\ Len(new_problems) =
            Cardinality({ i \in 1..Len(attempts) :
                            attempts[i].exc \notin MutationFailures })
       /\ \A k \in 1..Len(new_problems) :
            \E i \in 1..Len(attempts) :
              /\ attempts[i].exc \notin MutationFailures
              /\ attempts[i].problem = new_problems[k].parent_id
  /\ round_pc = "returned" =>
       /\ raised = "none"
       /\ Len(attempts) = Min(config.num_problems, Len(round_entry))
       /\ \A c \in RoundChildren :
            \E i \in 1..Len(attempts) :
              /\ attempts[i].exc \notin MutationFailures
              /\ attempts[i].problem = c.parent_id
       /\ Cardinality(RoundChildren) =
            Cardinality({ i \in 1..Len(attempts) :
                            attempts[i].exc \notin MutationFailures })

\* C3 witness: the first mutation of a round failed for a missing template,
\* the second one succeeded, and the round returned.
C3_Witness ==
  /\ round_pc = "returned"
  /\ Len(attempts) = 2
  /\ attempts[1].exc = "FileNotFoundError"
  /\ attempts[2].exc = "none"
  /\ Cardinality(RoundChildren) = 1

\* C4: the Variants process_round returns are merge candidates (children of
\* the round, or members of the input population), and no candidate that was
\* left out has a score strictly greater than a returned one's.
C4_TopOfCandidates ==
  round_pc = "returned" =>
    /\ \A i \in 1..Len(problems) :
         \E j \in 1..Len(merge_candidates) : problems[i] = merge_candidates[j]
    /\ \A j \in 1..Len(merge_candidates) :
         merge_candidates[j].id \notin Ids(problems) =>
           \A i \in 1..Len(problems) :
             merge_candidates[j].score <= problems[i].score

\* C4 witness: a round returned, leaving out both a child and an original,
\* the result holding a child.
C4_Witness ==
  /\ round_pc = "returned"
  /\ \E c \in RoundChildren : c.id \notin Ids(problems)
  /\ \E j \in 1..Len(round_entry) : round_entry[j].id \notin Ids(problems)
  /\ \E c \in RoundChildren : c.id \in Ids(problems)

\* C5: a successful mutate(p, t) returns a new Variant whose parent_id is
\* p.id, whose mutations are p.mutations with t appended last, and whose
\* content is the first completion of the backend's response, unchanged.
C5_MutateChild ==
  (mutate_io.done /\ mutate_io.result.exc = "none") =>
    LET p == mutate_io.problem
        child == mutate_io.result.value
    IN  /\ child.id = mutate_io.fresh_id
        /\ child.id # p.id
        /\ child.parent_id = p.id
        /\ child.mutations = p.mutations \o << mutate_io.mutation_type >>
        /\ child.content = mutate_io.response.choices[1]

\* C5 witness: mutate succeeded on a parent that has a lineage already, the
\* response holding two different completions.
C5_Witness ==
  /\ mutate_io.done
  /\ mutate_io.result.exc = "none"
  /\ Len(mutate_io.problem.mutations) > 0
  /\ Len(mutate_io.response.choices) = 2
  /\ mutate_io.response.choices[1] # mutate_io.response.choices[2]

\* C6: when topK exceeds the sample size, the run ends with a validation
\* error before anything else happens: no seed is loaded, process_round is
\* not invoked, no backend request is sent, no snapshot is written.
C6_RejectedBeforeAnyRound ==
  args.topk_problems > args.num_problems =>
    /\ pc # "from_args" => raised = "ValidationError" /\ log = "Validation error"
    /\ pc \in {"from_args", "returned", "exited"}
    /\ ~loaded
    /\ problems = <<>>
    /\ invocations = 0
    /\ backend_requests = 0
    /\ snapshots = <<>>
    /\ leaderboard = NoLeaderboard

\* C6 witness: a run whose only fault is topK above the sample size has ended.
C6_Witness ==
  /\ pc = "exited"
  /\ args.num_rounds >= 1
  /\ args.num_problems >= 1
  /\ args.topk_problems > args.num_problems
  /\ raised = "ValidationError"

\* The exception classes main tells apart; "Exception" is the unexpected one.
ErrorKinds == {"ConfigurationError", "MutationError", "ResourceError",
               "ValidationError", "Exception"}

\* C7: main returns 0 only after all configured rounds completed; a run
\* ended by an error returns a non-zero value, and the values returned for
\* the five kinds of error differ from one another.
C7_DistinguishableOutcomes ==
  pc \in {"returned", "exited"} =>
    /\ ret = 0 => /\ raised = "none"
                  /\ round_num = config.num_rounds
                  /\ Len(snapshots) = config.num_rounds
    /\ raised # "none" =>
         /\ ret # 0
         /\ \A kind \in ErrorKinds :
              main_except(kind).log # main_except(raised).log =>
                main_except(kind).ret # ret

\* C8: an error of a round that is not a mutation failure, such as the
\* OSError of save_problem, is not swallowed: it aborts process_round and
\* main ends the run with a non-zero value.
C8_ResourceErrorPropagates ==
  \A i \in 1..Len(attempts) :
    attempts[i].exc \notin (MutationFailures \cup {"none"}) =>
      /\ round_pc = "aborted"
      /\ raised = attempts[i].exc
      /\ pc \in {"returned", "exited"}
      /\ ret > 0

\* The termination measure of the run: it decreases with every step.
StepsPerRound == 2 * MaxSample + 3

Variant ==
  IF pc = "from_args" THEN (MaxRounds + 1) * StepsPerRound + 4
  ELSE IF pc = "load_problems" THEN (MaxRounds + 1) * StepsPerRound + 3
  ELSE IF pc = "mutate_on_start" THEN (config.num_rounds + 1) * StepsPerRound + 2
  ELSE IF pc = "for_rounds"
  THEN (config.num_rounds - round_num) * StepsPerRound + 2
  ELSE IF pc = "process_round"
  THEN (IF call_site = "mutate_on_start" THEN config.num_rounds
        ELSE config.num_rounds - round_num - 1) * StepsPerRound
       + 2 * (Len(selected_problems) + 1 - idx)
       - (IF in_flight = "none" THEN 0 ELSE 1) + 4
  ELSE IF pc = "save_leaderboard"
  THEN (config.num_rounds - round_num - 1) * StepsPerRound + 3
  ELSE IF pc = "returned" THEN 1
  ELSE 0

\* What holds of the rounds and the snapshots in every state of a run.
RoundsAndSnapshots ==
  LET pre == IF config.mutate_on_start THEN 1 ELSE 0
  IN  /\ (pc \in {"returned", "exited"} /\ raised = "none") =>
           /\ ret = 0
           /\ invocations = config.num_rounds + pre
           /\ Len(snapshots) = config.num_rounds
      /\ \A i \in 1..Len(snapshots) : snapshots[i].invocation = i + pre
      /\ round_pc = "running" =>
           invocations = Len(snapshots) + 1
                           + (IF call_site = "for_rounds" THEN pre ELSE 0)
      /\ (round_pc = "running" /\ invocations > 1) => round_entry = last_output
      /\ Variant >= 0

\* C9: absent a fatal error, main ends after exactly numRounds invocations
\* of process_round (one more, before round 1, with mutate-on-start), each
\* one called with what the one before returned, and exactly one snapshot is
\* written after each of the numRounds rounds, before the next one starts;
\* every step brings the end of the run nearer.
C9_RoundsAndSnapshots ==
  /\ []RoundsAndSnapshots
  /\ [][Variant' < Variant]_vars

\* C9 witness: a run of two rounds, each with one successful mutation, has
\* ended without an error, two snapshots written.
C9_Witness ==
  /\ pc = "exited"
  /\ raised = "none"
  /\ config.num_rounds = 2
  /\ invocations = 2
  /\ mutations_done = 2
  /\ failures = 0
  /\ Len(snapshots) = 2
  /\ Len(problems) > 0

\* C10: the snapshot written after a round holds one entry for each Variant
\* the round returned, sorted descending by score, and the number of that
\* round: the snapshots of successive rounds carry successive numbers.
C10_SnapshotCarriesItsRound ==
  /\ (pc = "for_rounds" /\ Len(snapshots) > 0) =>
       /\ Len(leaderboard.problems) = Len(problems)
       /\ IsSortedDesc(leaderboard.problems)
       /\ \A i \in 1..Len(problems) :
            /\ leaderboard.problems[i].id = str(problems[i].id)
            /\ leaderboard.problems[i].score = problems[i].score
            /\ leaderboard.problems[i].mutations = problems[i].mutations
       /\ leaderboard.round_number = snapshots[Len(snapshots)].round_number
  /\ \A i \in 1..Len(snapshots) :
       snapshots[i].round_number = snapshots[1].round_number + (i - 1)

\* C11: Problem.create(c) returns a Variant with content c, score 0, no
\* mutations and parent_id None, under a fresh id; create(c, parent_id=q)
\* returns the same but for parent_id, which is q.
C11_CreateFields ==
  create_io.done =>
    LET v == create_io.result
    IN  /\ v.id = create_io.fresh_id
        /\ v.content = create_io.content
        /\ v.score = 0
        /\ v.mutations = <<>>
        /\ v.parent_id = create_io.parent_id
        /\ [v EXCEPT !.parent_id = None]
             = [id |-> create_io.fresh_id, content |-> create_io.content,
                score |-> 0, parent_id |-> None, mutations |-> <<>>]

\* C11 witness: create was called with a text of several words and a
\* parent_id that is not None.
C11_Witness ==
  /\ create_io.done
  /\ create_io.content = DesignASystem
  /\ create_io.parent_id # None
  /\ create_io.result.parent_id = create_io.parent_id

\* The score 1.0 in the unit of the model's scores.
ScoreUnit == 120000

\* C12: whatever the content and however long the mutation history, the
\* score evaluate_problem computes lies in [0, 1].
C12_ScoreInUnitInterval ==
  evaluate_io.done =>
    /\ evaluate_io.result >= 0
    /\ evaluate_io.result <= ScoreUnit

\* C13: every child of a round that reaches the merge has been scored by
\* the scorer and written to output/ under its id, content unchanged: no
\* child is a merge candidate, or in what the round returns, without a file.
C13_ChildrenPersistedBeforeMerge ==
  round_pc = "returned" =>
    /\ \A c \in RoundChildren :
         /\ c.score = evaluate_problem(c)
         /\ \E f \in output_files : f.name = c.id /\ f.content = c.content
    /\ \A i \in 1..Len(problems) :
         problems[i].id \notin Ids(round_entry) =>
           \E f \in output_files : f.name = problems[i].id

\* The ids of the Variants handed to mutate so far in the latest round.
Submitted == { attempts[i].problem : i \in 1..Len(attempts) }

\* C14: a round selects exactly min(sample size, |population|) distinct
\* Variants of its input population, hands each of them to mutate once and
\* no other Variant, and so produces at most that many children.
C14_SelectionMutatedOnce ==
  LET k == Min(config.num_problems, Len(round_entry))
  IN  /\ round_pc = "running" =>
           /\ Len(selected_problems) = k
           /\ Cardinality(Ids(selected_problems)) = k
           /\ Ids(selected_problems) \subseteq Ids(round_entry)
           /\ Len(attempts) <= k
           /\ \A i \in 1..Len(attempts) :
                attempts[i].problem = selected_problems[i].id
           /\ Len(new_problems) <= Len(attempts)
      /\ round_pc = "returned" =>
           /\ Len(attempts) = k
           /\ Cardinality(Submitted) = k
           /\ Submitted \subseteq Ids(round_entry)
           /\ Len(merge_candidates) - Len(round_entry) <= k

\* C14 witness: a round over a population of two with a sample size of one
\* has returned: one Variant was handed to mutate, the other was not.
C14_Witness ==
  /\ round_pc = "returned"
  /\ config.num_problems = 1
  /\ Len(round_entry) = 2
  /\ Len(attempts) = 1
  /\ \E j \in 1..Len(round_entry) : round_entry[j].id \notin Submitted

\* The member of the input population at position j, as it is at the merge.
AtMerge(j) ==
  merge_candidates[Len(merge_candidates) - Len(round_entry) + j]

\* C15: when a round has returned, every Variant of its input population
\* that came in with score 0 carries the score evaluate_problem gives it,
\* retained or not, and every one that came in with another score has kept
\* it, at the merge and in what the round returns.
C15_ScoredOnceOnEntry ==
  round_pc = "returned" =>
    /\ Len(merge_candidates) >= Len(round_entry)
    /\ \A j \in 1..Len(round_entry) :
         /\ AtMerge(j).id = round_entry[j].id
         /\ AtMerge(j).score =
              IF round_entry[j].score = 0 THEN evaluate_problem(round_entry[j])
                                          ELSE round_entry[j].score
         /\ \A i \in 1..Len(problems) :
              problems[i].id = round_entry[j].id =>
                problems[i].score = AtMerge(j).score

\* C15 witness: a round has returned whose input population held a Variant
\* with score 0 that is not retained, and another that is retained.
C15_Witness ==
  /\ round_pc = "returned"
  /\ \E j \in 1..Len(round_entry) :
       /\ round_entry[j].score = 0
       /\ round_entry[j].id \notin Ids(problems)
       /\ AtMerge(j).score > 0
  /\ \E j \in 1..Len(round_entry) :
       /\ round_entry[j].score = 0
       /\ round_entry[j].id \in Ids(problems)

\* Every Variant the run holds: in main's population and in the lists of
\* the latest round.
Live ==
  UNION { { list[i] : i \in 1..Len(list) } :
            list \in {problems, round_problems, selected_problems,
                      new_problems, merge_candidates, round_entry} }

\* C16: the labels in the mutation history of any Variant of a run are
\* rephrase, expand or simplify: add_constraints never appears, seeds
\* starting with an empty history.
C16_BaselineStrategiesOnly ==
  /\ \A p \in Live :
       \A i \in 1..Len(p.mutations) :
         /\ p.mutations[i] \in {"rephrase", "expand", "simplify"}
         /\ p.mutations[i] # "add_constraints"
  /\ \A p \in Live : registry[p.id].origin = "load_problems" => p.mutations = <<>>

\* C16 witness: a run of two rounds has ended with a Variant whose history
\* holds two different labels.
C16_Witness ==
  /\ pc = "exited"
  /\ invocations = 2
  /\ \E i \in 1..Len(problems) :
       /\ Len(problems[i].mutations) = 2
       /\ problems[i].mutations[1] # problems[i].mutations[2]

\* The number of parent links from the Problem of this id back to a seed.
RECURSIVE Links(_)
Links(id) ==
  IF registry[id].parent_id = None THEN 0
  ELSE 1 + Links(registry[id].parent_id)

\* C17: for every Variant of a run, the length of its mutation history is
\* the number of parent links back to its seed ancestor, its parent_id is
\* None exactly when load_problems created it, and a parent_id that is not
\* None is the id of a Variant created earlier.
C17_LineageMatchesHistory ==
  \A p \in Live :
    /\ p.id \in 1..Len(registry)
    /\ registry[p.id].parent_id = p.parent_id
    /\ Len(p.mutations) = Links(p.id)
    /\ p.parent_id = None <=> registry[p.id].origin = "load_problems"
    /\ p.parent_id # None =>
         /\ p.parent_id \in 1..Len(registry)
         /\ p.parent_id < p.id

\* C17 witness: the population holds the child of a child of a seed.
C17_Witness ==
  \E i \in 1..Len(problems) :
    /\ Len(problems[i].mutations) = 2
    /\ problems[i].parent_id # None
    /\ registry[problems[i].parent_id].origin = "mutate"
    /\ registry[registry[problems[i].parent_id].parent_id].origin = "load_problems"

\* What mutate hands back is unscored and has no file.
MutateOnlyBuilds ==
  (mutate_io.done /\ mutate_io.result.exc = "none") =>
    /\ mutate_io.result.value.score = 0
    /\ \A f \in output_files : f.name # mutate_io.result.value.id

\* A step leaves what identifies an existing Variant as it was: mutate its
\* whole parent, a round everything but the score.
ExistingVariantsKept ==
  /\ mutate_io'.problem = mutate_io.problem
  /\ pc \in {"mutate", "mutate_awaiting", "add_constraints",
             "add_constraints_awaiting"} => output_files' = output_files
  /\ \A p \in Live :
       \A q \in Live' :
         q.id = p.id =>
           /\ q.content = p.content
           /\ q.parent_id = p.parent_id
           /\ q.mutations = p.mutations

\* C18: neither mutate nor process_round changes the id, content, parent_id
\* or mutation history of an existing Variant: mutate leaves its parent as it
\* was and returns a child it has neither scored nor saved, and a round
\* changes nothing of an existing Variant but its score.
C18_ExistingVariantsImmutable ==
  /\ []MutateOnlyBuilds
  /\ [][ExistingVariantsKept]_vars

\* C18 witness: mutate has returned the child of a scored parent that has a
\* history of its own; the child is unscored.
C18_Witness ==
  /\ mutate_io.done
  /\ mutate_io.result.exc = "none"
  /\ mutate_io.problem.score > 0
  /\ Len(mutate_io.problem.mutations) = 1
  /\ mutate_io.result.value.score = 0
  /\ Len(mutate_io.result.value.mutations) = 2

\* How many calls of mutate of the latest round returned a child.
Produced ==
  Cardinality({ i \in 1..Len(attempts) : attempts[i].exc \notin MutationFailures })

\* C19: a round returns exactly min(topK, |input population| + children
\* produced) Variants; so a population of at most topK members does not
\* shrink in a round, and one that is not empty does not become empty.
C19_ReturnedSize ==
  round_pc = "returned" =>
    /\ Len(problems) = Min(config.topk_problems, Len(round_entry) + Produced)
    /\ Len(round_entry) <= config.topk_problems =>
         Len(problems) >= Len(round_entry)
    /\ Len(round_entry) > 0 => Len(problems) > 0

\* C19 witness: a round has returned a population larger than the one it
\* was called with, which was not empty and had fewer than topK members.
C19_Witness ==
  /\ round_pc = "returned"
  /\ Len(round_entry) > 0
  /\ Len(round_entry) < config.topk_problems
  /\ Produced = 1
  /\ Len(problems) = Len(round_entry) + 1

PosAtMerge(id) ==
  CHOOSE k \in 1..Len(merge_candidates) : merge_candidates[k].id = id

\* C21: the merge candidates are the children of the round in production
\* order, then the input population in its order; what the round returns
\* keeps candidates of equal score in that order, and when the cut falls
\* inside a group of equal scores it keeps the earlier candidates, so a
\* child rather than an original of the same score.
C21_TiesKeepMergeOrder ==
  round_pc = "returned" =>
    LET n == Len(merge_candidates) - Len(round_entry)
    IN  /\ n = Produced
        /\ \A k \in 1..n : merge_candidates[k].id \notin Ids(round_entry)
        /\ \A k, l \in 1..n :
             k < l => merge_candidates[k].id < merge_candidates[l].id
        /\ \A j \in 1..Len(round_entry) :
             merge_candidates[n + j].id = round_entry[j].id
        /\ \A i, j \in 1..Len(problems) :
             (i < j /\ problems[i].score = problems[j].score) =>
               PosAtMerge(problems[i].id) < PosAtMerge(problems[j].id)
        /\ \A k \in 1..Len(merge_candidates) :
             merge_candidates[k].id \notin Ids(problems) =>
               \A i \in 1..Len(problems) :
                 problems[i].score = merge_candidates[k].score =>
                   PosAtMerge(problems[i].id) < k

\* C21 witness: a round has returned a child and left out a member of its
\* input population that has the same score as the child, the two having
\* the same content and histories of the same length under different labels.
C21_Witness ==
  /\ round_pc = "returned"
  /\ \E c \in RoundChildren :
       \E j \in 1..Len(round_entry) :
         /\ AtMerge(j).score = c.score
         /\ AtMerge(j).content = c.content
         /\ Len(AtMerge(j).mutations) = Len(c.mutations)
         /\ AtMerge(j).mutations # c.mutations
         /\ c.id \in Ids(problems)
         /\ round_entry[j].id \notin Ids(problems)

====
